---- MODULE Spec2Model ----
(***************************************************************************)
(* Model of the Grist canvas/dashboard widget.  Three builds of the widget *)
(* live in the repository and are modelled side by side:                   *)
(*   V13  src/src/App.jsx        (CSS grid, origin-checking navigation)    *)
(*   V23  src/unnamed/part_000   (absolute layout, menu tiles)             *)
(*   V20  src/unnamed/part_001   (absolute layout, records shown raw)      *)
(* JavaScript numbers are kept in tenths: the integer n is    *)
(* the value 10*n, 3.6 is 36.  NaN and the infinities are separate kinds.  *)
(***************************************************************************)
EXTENDS Integers, Sequences, FiniteSets, TLC

VARIABLES
  variant,       \* which build of the widget is deployed
  grist,         \* window.grist is present
  frameOrigin,   \* window.location.origin of the widget frame
  domainRelaxed, \* frame and top agreed on document.domain (cross-origin reads succeed)
  effectRan,     \* Dashboard's useEffect has run
  subscribed,    \* the onRecords callback is registered with the host
  mounted,       \* Dashboard is mounted under the ErrorBoundary
  items,         \* Dashboard state: items
  status,        \* Dashboard state: status
  hasError,      \* ErrorBoundary state: hasError
  error,         \* ErrorBoundary state: error
  lastBatch,     \* the batch of the most recent records notification
  topUrl,        \* window.top.location
  unloaded,      \* the top-level window has navigated away from the document
  nav            \* what the most recent handleNavigate call did

vars == <<variant, grist, frameOrigin, domainRelaxed, effectRan, subscribed,
          mounted, items, status, hasError, error, lastBatch, topUrl,
          unloaded, nav>>

----------------------------------------------------------------------------
(* Builds *)

V13 == "v13.0 - CSS Grid (Clean)"
V23 == "v2.3"
V20 == "v2.0"
Variants == {V13, V23, V20}

Null == "<null>"
Absent == "<undefined>"

----------------------------------------------------------------------------
(* JavaScript numbers and the values a numeric cell can hold *)

Fin(v) == [k |-> "fin", v |-> v]
NaN == [k |-> "nan", v |-> 0]
Infinity == [k |-> "inf", v |-> 0]
NegInfinity == [k |-> "ninf", v |-> 0]

Whole(n) == Fin(n * 10)

IsFinite(n) == n.k = "fin"
IsInteger(n) == n.k = "fin" /\ n.v % 10 = 0

NumV(n) == [t |-> "number", n |-> n, s |-> ""]
StrV(s) == [t |-> "string", n |-> NaN, s |-> s]
BoolV(b) == [t |-> "boolean", n |-> IF b THEN Whole(1) ELSE Whole(0), s |-> ""]
UndefinedV == [t |-> "undefined", n |-> NaN, s |-> ""]
NullV == [t |-> "null", n |-> NaN, s |-> ""]

\* StringToNumber of the texts the model delivers; any other text is NaN.
StringToNumber(s) ==
  CASE s = "" -> Whole(0)
    [] s = "3.6" -> Fin(36)
    [] s = "-2.5" -> Fin(-25)
    [] s = "Infinity" -> Infinity
    [] OTHER -> NaN

\* Number(value)
Number(val) ==
  CASE val.t = "number" -> val.n
    [] val.t = "string" -> StringToNumber(val.s)
    [] val.t = "boolean" -> val.n
    [] val.t = "null" -> Whole(0)
    [] OTHER -> NaN

\* Mutant of MathRound: truncation toward zero, as parseInt would give.
MutMathTrunc(n) ==
  IF n.k # "fin" THEN n
  ELSE IF n.v >= 0 THEN Fin((n.v \div 10) * 10)
  ELSE Fin(-(((-n.v) \div 10) * 10))

\* Math.round: floor(x + 0.5); NaN and the infinities are returned unchanged.
MathRound(n) ==
  IF n.k = "fin" THEN Fin(((n.v + 5) \div 10) * 10) ELSE n

\* ToBoolean of a number
NumTruthy(n) == n.k \in {"inf", "ninf"} \/ (n.k = "fin" /\ n.v # 0)

\* a || b on numbers
NumOr(a, b) == IF NumTruthy(a) THEN a ELSE b

\* a + b on numbers (b finite)
NumAdd(a, b) == IF a.k = "fin" THEN Fin(a.v + b.v) ELSE a

DefaultX == 0
DefaultW == 2
DefaultH == 1
Offset == 1

\* (Math.round(Number(v)) || 0) + 1
CoercePos(val) == NumAdd(NumOr(MathRound(Number(val)), Whole(DefaultX)), Whole(Offset))

\* Math.round(Number(v)) || d
CoerceSpan(val, d) == NumOr(MathRound(Number(val)), Whole(d))

----------------------------------------------------------------------------
(* URLs, and the values the Link, Label, Type and Pages cells can hold *)

Url(o, p, q, f) == [origin |-> o, path |-> p, query |-> q, frag |-> f]
NoUrl == Url("", "", "", "")

TopOrigin == "https://docs.example.com"
WidgetOrigin == "https://widgets.example.com"
OtherOrigin == "https://other.example"

TopStart == Url(TopOrigin, "/doc/dash", "?embed=1", "")
FramePath == "/widget/index.html"

\* A Link cell: a text (empty, "#frag", an absolute URL), undefined, or a number.
LinkUndefined == [t |-> "undefined", form |-> "", url |-> NoUrl]
LinkEmpty == [t |-> "string", form |-> "empty", url |-> NoUrl]
LinkHash(f) == [t |-> "string", form |-> "hash", url |-> Url("", "", "", f)]
LinkAbs(u) == [t |-> "string", form |-> "abs", url |-> u]
LinkFive == [t |-> "number", form |-> "", url |-> NoUrl]

\* ToBoolean of a Link value: undefined and "" are falsy, 5 and other texts truthy.
LinkTruthy(l) == (l.t = "string" /\ l.form # "empty") \/ l.t = "number"

\* url.startsWith('#'); a value that is no text has no such method.
HasStartsWith(l) == l.t = "string"
StartsWithHash(l) == l.t = "string" /\ l.form = "hash"

\* A Label cell: a text, undefined, or an object (a Date decoded by the host).
LabelText(s) == [t |-> "string", s |-> s]
LabelUndefined == [t |-> "undefined", s |-> ""]
LabelObject == [t |-> "object", s |-> ""]
LabelTruthy(l) == l.t = "object" \/ (l.t = "string" /\ l.s # "")

\* A sub-record of a Pages cell.
Page(i, name) == [id |-> i, hasFields |-> TRUE, page_name |-> name]
PageNoFields(i) == [id |-> i, hasFields |-> FALSE, page_name |-> ""]

\* A Pages cell: undefined, or an array of len elements whose element [1]
\* is an array of sub-records (isArray) or something else.
Second(isArr, es) == [isArray |-> isArr, entries |-> es]
PagesUndefined == [isArray |-> FALSE, len |-> 0, second |-> Second(FALSE, <<>>)]
PagesArray(n, sec) == [isArray |-> TRUE, len |-> n, second |-> sec]

\* encodeURIComponent of the page names the model delivers.
EncodeURIComponent(s) ==
  CASE s = "My Page" -> "My%20Page"
    [] s = "A&B" -> "A%26B"
    [] OTHER -> s

----------------------------------------------------------------------------
(* Record Mapper *)

EmptyStatus(v) ==
  IF v = V13 THEN "Connected: 0 records found."
  ELSE "No configuration found. Please link to the SysDashboard_Config table."

UnavailableStatus(v) ==
  IF v = V13 THEN "Error: Grist API global not found."
  ELSE "Error: Grist API not found."

InitialStatus(v) ==
  IF v = V13 THEN "Initializing connection..." ELSE "Initializing..."

InitErrorStatus == "Grist Init Error: ready failed"

\* records.map(rec => ({...})) of App.jsx
MapRecord13(rec) ==
  [id |-> rec.id,
   x |-> CoercePos(rec.X),
   y |-> CoercePos(rec.Y),
   w |-> CoerceSpan(rec.W, DefaultW),
   h |-> CoerceSpan(rec.H, DefaultH),
   label |-> IF LabelTruthy(rec.Label) THEN rec.Label ELSE LabelText("Untitled"),
   linkUrl |-> rec.Link]

\* records.map(rec => ({...})) of part_000 (color and bgColor are display-only
\* and not modelled)
MapRecord23(rec) ==
  [id |-> rec.id,
   x |-> CoercePos(rec.X),
   y |-> CoercePos(rec.Y),
   w |-> CoerceSpan(rec.W, DefaultW),
   h |-> CoerceSpan(rec.H, DefaultH),
   label |-> IF LabelTruthy(rec.Label) THEN rec.Label ELSE LabelText(""),
   link |-> IF LinkTruthy(rec.Link) THEN rec.Link ELSE LinkEmpty,
   type |-> rec.Type,
   pages |-> rec.Pages]

\* what the records callback hands to setItems for a non-empty batch
MapBatch(v, recs) ==
  CASE v = V13 -> [i \in 1..Len(recs) |-> MapRecord13(recs[i])]
    [] v = V23 -> [i \in 1..Len(recs) |-> MapRecord23(recs[i])]
    [] OTHER -> recs

----------------------------------------------------------------------------
(* Tile Renderer *)

\* Mutant of ElementKind: the sub-record list must hold more than one entry.
MutElementKindSeveralPages(item) ==
  IF /\ item.type = "Menu" /\ item.pages.isArray /\ item.pages.len > 1
     /\ item.pages.second.isArray /\ Len(item.pages.second.entries) > 1
  THEN "menu" ELSE "default"

\* Element: which sub-renderer a tile of part_000 gets
ElementKind(item) ==
  IF item.type = "Menu" /\ item.pages.isArray /\ item.pages.len > 1
  THEN "menu" ELSE "default"

\* MenuElement: the list it maps over
PageRecords(item) ==
  IF item.pages.isArray /\ item.pages.len > 1 THEN item.pages.second
  ELSE Second(TRUE, <<>>)

\* {label} as a React child: an object is rejected
LabelError(l) ==
  IF l.t = "object" THEN "Error: Objects are not valid as a React child" ELSE Null

\* MenuElement: pageRecords.map(...) and page.fields.page_name
MenuError(item) ==
  LET pr == PageRecords(item) IN
  IF ~pr.isArray THEN "TypeError: pageRecords.map is not a function"
  ELSE IF \E j \in 1..Len(pr.entries) : ~pr.entries[j].hasFields
       THEN "TypeError: Cannot read properties of undefined (reading 'page_name')"
       ELSE Null

\* the failure rendering one tile raises, Null when it renders
ElementError(v, item) ==
  CASE v = V13 -> LabelError(item.label)
    [] v = V23 -> IF ElementKind(item) = "menu" THEN MenuError(item)
                  ELSE LabelError(item.label)
    [] OTHER -> LabelError(item.Label)

\* the failure Dashboard's render raises: the first failing tile's, in order
RenderError(v, st, its) ==
  IF st # Null THEN Null
  ELSE IF \E i \in 1..Len(its) : ElementError(v, its[i]) # Null
       THEN LET first == CHOOSE i \in 1..Len(its) :
                           /\ ElementError(v, its[i]) # Null
                           /\ \A j \in 1..(i-1) : ElementError(v, its[j]) = Null
            IN ElementError(v, its[first])
       ELSE Null

\* ErrorBoundary.render over Dashboard's return value
Rendered ==
  IF hasError THEN [view |-> "crash", text |-> error]
  ELSE IF status # Null THEN [view |-> "status", text |-> status]
  ELSE [view |-> "tiles", text |-> ""]

----------------------------------------------------------------------------
(* Navigation Dispatcher *)

FrameUrl == Url(frameOrigin, FramePath, "", "")

\* The frame may read window.top's location and history: same origin, or both
\* documents relaxed document.domain.  Otherwise the read raises SecurityError.
TopAccess == frameOrigin = topUrl.origin \/ domainRelaxed

\* directory of the paths the model uses
Dir(p) ==
  CASE p \in {"/doc/dash", "/doc/5", "/doc/page"} -> "/doc/"
    [] p \in {FramePath, "/widget/5"} -> "/widget/"
    [] OTHER -> "/"

\* the URL parser applied to a target against a base URL
Resolve(l, base) ==
  CASE l.t = "string" /\ l.form = "hash" -> [base EXCEPT !.frag = l.url.frag]
    [] l.t = "string" /\ l.form = "abs" -> l.url
    [] l.t = "number" -> Url(base.origin, Dir(base.path) \o "5", "", "")
    [] OTHER -> [base EXCEPT !.frag = ""]

\* a navigation that stays in the document: only a fragment is added or changed
SameDocument(old, new) ==
  /\ old.origin = new.origin /\ old.path = new.path /\ old.query = new.query
  /\ new.frag # ""

NoNav ==
  [called |-> FALSE, target |-> LinkUndefined, push |-> 0, pop |-> 0,
   assign |-> 0, threw |-> Null, before |-> NoUrl, after |-> NoUrl,
   unload |-> FALSE]

\* handleNavigate was entered with target l and has done nothing yet
Entered(l) ==
  [NoNav EXCEPT !.called = TRUE, !.target = l, !.before = topUrl, !.after = topUrl]

Throw(r, what) == [r EXCEPT !.threw = what]

\* window.top.history.pushState(null, '', u): a URL of another origin than the
\* document's is refused with SecurityError; otherwise the URL is replaced.
PushState(r, u) ==
  IF u.origin # r.after.origin
  THEN Throw([r EXCEPT !.push = @ + 1], "SecurityError: pushState")
  ELSE [r EXCEPT !.push = @ + 1, !.after = u]

\* Mutant of DispatchPopState: the notification is dispatched twice.
MutDispatchPopStateTwice(r) ==
  IF r.threw # Null THEN r ELSE [r EXCEPT !.pop = @ + 2]

\* window.top.dispatchEvent(new PopStateEvent('popstate'))
DispatchPopState(r) == IF r.threw # Null THEN r ELSE [r EXCEPT !.pop = @ + 1]

\* window.top.location.href = u
AssignHref(r, u) ==
  [r EXCEPT !.assign = @ + 1, !.after = u, !.unload = ~SameDocument(r.after, u)]

\* Mutant of HandleNavigate13: the history push without the popstate dispatch.
MutHandleNavigate13Silent(l) ==
  IF ~LinkTruthy(l) THEN Entered(l)
  ELSE IF ~TopAccess
  THEN Throw(Entered(l), "SecurityError: window.top.location.origin")
  ELSE IF topUrl.origin = frameOrigin
  THEN PushState(Entered(l), Resolve(l, topUrl))
  ELSE AssignHref(Entered(l), Resolve(l, FrameUrl))

\* handleNavigate of App.jsx
HandleNavigate13(l) ==
  IF ~LinkTruthy(l) THEN Entered(l)
  ELSE IF ~TopAccess
  THEN Throw(Entered(l), "SecurityError: window.top.location.origin")
  ELSE IF topUrl.origin = frameOrigin
  THEN DispatchPopState(PushState(Entered(l), Resolve(l, topUrl)))
  ELSE AssignHref(Entered(l), Resolve(l, FrameUrl))

\* handleNavigate of part_000
HandleNavigate23(l) ==
  IF ~LinkTruthy(l) THEN Entered(l)
  ELSE IF ~HasStartsWith(l)
  THEN Throw(Entered(l), "TypeError: url.startsWith is not a function")
  ELSE IF StartsWithHash(l)
  THEN IF ~TopAccess
       THEN Throw(Entered(l), "SecurityError: window.top.location.href")
       ELSE DispatchPopState(
              PushState(Entered(l), [topUrl EXCEPT !.frag = l.url.frag]))
  ELSE AssignHref(Entered(l), Resolve(l, FrameUrl))

\* onClick of a grid item of App.jsx: item.linkUrl && handleNavigate(item.linkUrl)
OnClick13(item) ==
  IF LinkTruthy(item.linkUrl) THEN HandleNavigate13(item.linkUrl)
  ELSE [NoNav EXCEPT !.target = item.linkUrl, !.before = topUrl, !.after = topUrl]

\* onClick of DefaultElement: handleNavigate(item.link)
OnClickDefault(item) == HandleNavigate23(item.link)

\* onClick of a row of MenuElement
OnClickPage(page) ==
  HandleNavigate23(LinkHash("p=" \o EncodeURIComponent(page.page_name)))

----------------------------------------------------------------------------
(* Crash Boundary *)

\* getDerivedStateFromError and componentDidCatch, run in the same commit
Caught(err) == [hasError |-> TRUE, error |-> err]

\* Mutant of BoundaryAfter: a pass that raises nothing resets the boundary.
MutBoundaryRetries(err) ==
  IF err # Null THEN Caught(err) ELSE [hasError |-> FALSE, error |-> Null]

\* the boundary's state after a render pass that raised err (Null: none)
BoundaryAfter(err) ==
  IF err # Null THEN Caught(err) ELSE [hasError |-> hasError, error |-> error]

----------------------------------------------------------------------------
(* Host Binding *)

NoBatch == [delivered |-> FALSE, absent |-> FALSE, recs |-> <<>>]
Batch(recs) == [delivered |-> TRUE, absent |-> FALSE, recs |-> recs]
AbsentBatch == [delivered |-> TRUE, absent |-> TRUE, recs |-> <<>>]

\* !records || records.length === 0
IsEmptyBatch(b) == b.absent \/ Len(b.recs) = 0

\* Mutant of RecordsState: an empty batch leaves the held tiles in place.
MutRecordsStateKeepsTiles(v, b) ==
  IF IsEmptyBatch(b)
  THEN [status |-> EmptyStatus(v), items |-> items]
  ELSE [status |-> Null, items |-> MapBatch(v, b.recs)]

\* Mutant of RecordsState: a batch is appended to the held tiles.
MutRecordsStateAppends(v, b) ==
  IF IsEmptyBatch(b)
  THEN [status |-> EmptyStatus(v), items |-> <<>>]
  ELSE [status |-> Null, items |-> items \o MapBatch(v, b.recs)]

\* the records callback's setStatus / setItems
RecordsState(v, b) ==
  IF IsEmptyBatch(b)
  THEN [status |-> EmptyStatus(v), items |-> <<>>]
  ELSE [status |-> Null, items |-> MapBatch(v, b.recs)]

Init ==
  /\ variant \in Variants
  /\ grist \in BOOLEAN
  /\ frameOrigin \in {TopOrigin, WidgetOrigin}
  /\ domainRelaxed \in (IF frameOrigin = TopOrigin THEN {FALSE} ELSE BOOLEAN)
  /\ effectRan = FALSE
  /\ subscribed = FALSE
  /\ mounted = TRUE
  /\ items = <<>>
  /\ status = InitialStatus(variant)
  /\ hasError = FALSE
  /\ error = Null
  /\ lastBatch = NoBatch
  /\ topUrl = TopStart
  /\ unloaded = FALSE
  /\ nav = NoNav

\* Dashboard's useEffect
Mount ==
  /\ ~effectRan /\ mounted /\ ~unloaded
  /\ effectRan' = TRUE
  /\ \/ /\ ~grist
        /\ status' = UnavailableStatus(variant)
        /\ UNCHANGED <<subscribed, mounted, hasError, error>>
     \/ /\ grist
        /\ subscribed' = TRUE
        /\ UNCHANGED <<status, mounted, hasError, error>>
     \/ /\ grist /\ variant = V13          \* grist.ready throws, caught
        /\ status' = InitErrorStatus
        /\ UNCHANGED <<subscribed, mounted, hasError, error>>
     \/ /\ grist /\ variant # V13          \* grist.ready throws, uncaught
        /\ LET b == BoundaryAfter("Error: ready failed") IN
             /\ hasError' = b.hasError
             /\ error' = b.error
        /\ mounted' = FALSE
        /\ UNCHANGED <<subscribed, status>>
  /\ UNCHANGED <<variant, grist, frameOrigin, domainRelaxed, items, lastBatch,
                 topUrl, unloaded, nav>>

\* the host delivers a records notification with batch b
OnRecords(b) ==
  /\ subscribed /\ ~unloaded
  /\ lastBatch' = b
  /\ IF mounted
     THEN LET st == RecordsState(variant, b)
              err == RenderError(variant, st.status, st.items)
              bd == BoundaryAfter(err)
          IN /\ status' = st.status
             /\ items' = st.items
             /\ hasError' = bd.hasError
             /\ error' = bd.error
             /\ mounted' = (err = Null)
     ELSE LET bd == BoundaryAfter(Null) IN
          /\ hasError' = bd.hasError
          /\ error' = bd.error
          /\ UNCHANGED <<status, items, mounted>>
  /\ UNCHANGED <<variant, grist, frameOrigin, domainRelaxed, effectRan,
                 subscribed, topUrl, unloaded, nav>>

\* the effects of one click handler run
Clicked(r) ==
  /\ nav' = r
  /\ topUrl' = r.after
  /\ unloaded' = r.unload
  /\ LET bd == BoundaryAfter(Null) IN
       /\ hasError' = bd.hasError
       /\ error' = bd.error
  /\ UNCHANGED <<variant, grist, frameOrigin, domainRelaxed, effectRan,
                 subscribed, mounted, items, status, lastBatch>>

TilesShown == mounted /\ ~unloaded /\ Rendered.view = "tiles"

\* the user clicks tile i (a grid item of App.jsx, a DefaultElement of part_000)
ClickTile(i) ==
  /\ TilesShown
  /\ i \in 1..Len(items)
  /\ \/ /\ variant = V13
        /\ Clicked(OnClick13(items[i]))
     \/ /\ variant = V23
        /\ ElementKind(items[i]) = "default"
        /\ Clicked(OnClickDefault(items[i]))

\* the user clicks row j of menu tile i
ClickPage(i, j) ==
  /\ TilesShown
  /\ variant = V23
  /\ i \in 1..Len(items)
  /\ ElementKind(items[i]) = "menu"
  /\ j \in 1..Len(PageRecords(items[i]).entries)
  /\ Clicked(OnClickPage(PageRecords(items[i]).entries[j]))

----------------------------------------------------------------------------
(* What the host delivers *)

MaxBatch == 2
MaxPages == 2

BaseRecord(i) ==
  [id |-> i, X |-> NumV(Whole(0)), Y |-> NumV(Whole(0)), W |-> NumV(Whole(2)),
   H |-> NumV(Whole(1)), Label |-> LabelText("Home"), Link |-> LinkUndefined,
   Type |-> Absent, Pages |-> PagesUndefined]

\* cells of a Numeric column: numbers (in tenths), NaN, Infinity, an empty cell,
\* a boolean, and texts
NumCells ==
  {NumV(Fin(v)) : v \in {-25, -14, 0, 5, 36}}
    \cup {NumV(NaN), NumV(Infinity), NumV(NegInfinity)}
    \cup {UndefinedV, NullV, BoolV(TRUE)}
    \cup {StrV(t) : t \in {"bad", "3.6", "Infinity", ""}}

LinkCells ==
  {LinkUndefined, LinkEmpty, LinkHash("p=Budget"), LinkFive,
   LinkAbs(Url(TopOrigin, "/doc/page", "", "")),
   LinkAbs(Url(OtherOrigin, "/x", "", ""))}

TypeCells == {"Menu", "menu", Absent}

Home == Page(1, "Home")
About == Page(2, "About")
MyPage == Page(3, "My Page")

PagesCells ==
  {PagesUndefined,
   PagesArray(1, Second(FALSE, <<>>)),                \* ["Pages"]
   PagesArray(2, Second(TRUE, <<>>)),                 \* ["Pages", []]
   PagesArray(2, Second(TRUE, <<MyPage>>)),           \* ["Pages", [p]]
   PagesArray(2, Second(TRUE, <<Home, About>>)),      \* ["Pages", [p, q]]
   PagesArray(3, Second(TRUE, <<Home, About>>)),      \* ["Pages", [p, q], x]
   PagesArray(3, Second(FALSE, <<>>)),                \* ["L", 1, 2]
   PagesArray(2, Second(TRUE, <<Home, PageNoFields(2)>>))}

LabelCells == {LabelText("Home"), LabelUndefined, LabelObject}

\* one record, every combination of numeric cells
MapRecords ==
  {[BaseRecord(1) EXCEPT !.X = x, !.Y = y, !.W = w, !.H = h] :
     x \in NumCells, y \in NumCells, w \in NumCells, h \in NumCells}

\* one record, every combination of Link, Type, Pages and Label cells
ClickRecords ==
  {[BaseRecord(1) EXCEPT !.Link = l, !.Type = t, !.Pages = p, !.Label = lb] :
     l \in LinkCells, t \in TypeCells, p \in PagesCells, lb \in LabelCells}

\* the rows of the configuration table over the widget's life
TableRows ==
  {[BaseRecord(1) EXCEPT !.Link = LinkHash("p=Budget"), !.X = NumV(Fin(36))],
   [BaseRecord(2) EXCEPT !.Type = "Menu",
                         !.Pages = PagesArray(2, Second(TRUE, <<Home, About>>))],
   [BaseRecord(3) EXCEPT !.Type = "Menu",
                         !.Pages = PagesArray(3, Second(FALSE, <<>>)),
                         !.Label = LabelObject],
   [BaseRecord(4) EXCEPT !.Link = LinkAbs(Url(OtherOrigin, "/x", "", ""))]}

RECURSIVE SeqsUpTo(_, _)
\* sequences over S of length at most n, without repeated ids
SeqsUpTo(S, n) ==
  IF n = 0 THEN {<<>>}
  ELSE LET shorter == SeqsUpTo(S, n - 1) IN
       shorter \cup
         {Append(q, r) : q \in {q \in shorter : Len(q) = n - 1},
                         r \in S}

DistinctIds(q) == \A i, j \in 1..Len(q) : i # j => q[i].id # q[j].id

Batches ==
  {AbsentBatch} \cup
    {Batch(q) : q \in {q \in SeqsUpTo(TableRows, MaxBatch) : DistinctIds(q)}}

----------------------------------------------------------------------------
(* Specifications *)

Next ==
  \/ Mount
  \/ \E b \in Batches : OnRecords(b)
  \/ \E i \in 1..MaxBatch : ClickTile(i)
  \/ \E i \in 1..MaxBatch : \E j \in 1..MaxPages : ClickPage(i, j)

Spec == Init /\ [][Next]_vars

\* the mapper applied to one record of every shape
InitMap == Init /\ grist /\ frameOrigin = TopOrigin

NextMap ==
  \/ Mount
  \/ /\ ~lastBatch.delivered
     /\ \E r \in MapRecords : OnRecords(Batch(<<r>>))

SpecMap == InitMap /\ [][NextMap]_vars

\* one tile of every shape delivered, then clicked
NextClick ==
  \/ Mount
  \/ /\ ~lastBatch.delivered
     /\ \E r \in ClickRecords : OnRecords(Batch(<<r>>))
  \/ ClickTile(1)
  \/ \E j \in 1..MaxPages : ClickPage(1, j)

SpecClick == Init /\ [][NextClick]_vars

----------------------------------------------------------------------------
(* Navigation Dispatcher: properties, checked under SpecClick *)

NoEffect(r) == r.push = 0 /\ r.pop = 0 /\ r.assign = 0

IsAbsolute(l) == l.t = "string" /\ l.form = "abs"

\* C1: a call of handleNavigate with a cross-origin absolute URL assigns the
\* top-level location once, to that URL, and issues no pushState and no
\* popstate, whatever the frame's own origin is.
C1_CrossOriginReplaces ==
  (nav.called /\ IsAbsolute(nav.target)
     /\ nav.target.url.origin # nav.before.origin)
  => /\ nav.assign = 1 /\ nav.push = 0 /\ nav.pop = 0
     /\ nav.after = nav.target.url

\* what C2 says a call with a "#..." target does: one pushState that changes
\* only the fragment, one popstate, no assignment of location.href
HashOnlyUpdate(r) ==
  /\ r.push = 1 /\ r.pop = 1 /\ r.assign = 0 /\ r.threw = Null
  /\ r.after = [r.before EXCEPT !.frag = r.target.url.frag]

C3_AtMostOneEffectNeverThrows ==
  /\ ~nav.called => NoEffect(nav)
  /\ nav.called =>
       /\ nav.threw = Null
       /\ nav.push + nav.assign <= 1
       /\ nav.pop = nav.push
       /\ ~LinkTruthy(nav.target) => NoEffect(nav)

\* C4 (as stated): every call of handleNavigate with an absolute target of the
\* top-level window's origin pushes that URL as a history entry and dispatches
\* popstate, without assigning location.href.
C4_SameOriginPushes ==
  (nav.called /\ IsAbsolute(nav.target)
     /\ nav.target.url.origin = nav.before.origin)
  => /\ nav.push = 1 /\ nav.pop = 1 /\ nav.assign = 0 /\ nav.threw = Null
     /\ nav.after = nav.target.url

\* C4 (amended): for such a target, handleNavigate of App.jsx pushes the URL
\* and dispatches popstate without assigning location.href when the frame has
\* the top-level window's origin; handleNavigate of part_000 assigns
\* location.href instead and issues no pushState and no popstate.
C4_SameOriginPerBuild ==
  (nav.called /\ IsAbsolute(nav.target)
     /\ nav.target.url.origin = nav.before.origin)
  => /\ (variant = V13 /\ frameOrigin = nav.before.origin) =>
          /\ nav.push = 1 /\ nav.pop = 1 /\ nav.assign = 0 /\ nav.threw = Null
          /\ nav.after = nav.target.url
     /\ variant = V23 =>
          /\ nav.assign = 1 /\ nav.push = 0 /\ nav.pop = 0 /\ nav.threw = Null
          /\ nav.after = nav.target.url

C4_Witness ==
  /\ variant = V13 /\ nav.called /\ IsAbsolute(nav.target)
  /\ nav.target.url.origin = TopOrigin /\ frameOrigin = TopOrigin
  /\ nav.push = 1 /\ topUrl.path = "/doc/page" /\ ~unloaded

----------------------------------------------------------------------------
(* Record Mapper: properties, checked under SpecMap *)

Mapped == lastBatch.delivered /\ variant \in {V13, V23} /\ Len(items) = 1

\* C5: x, y, w and h of every mapped tile are finite integers; a W or H that
\* is missing, not numeric or not finite gives w = 2, h = 1; an X or Y that is
\* missing, not numeric or not finite gives x = 1, y = 1.
C5_FiniteIntegers ==
  Mapped =>
    LET rec == lastBatch.recs[1]
        tile == items[1]
    IN /\ IsInteger(tile.x) /\ IsInteger(tile.y)
       /\ IsInteger(tile.w) /\ IsInteger(tile.h)
       /\ ~IsFinite(Number(rec.W)) => tile.w = Whole(2)
       /\ ~IsFinite(Number(rec.H)) => tile.h = Whole(1)
       /\ ~IsFinite(Number(rec.X)) => tile.x = Whole(1)
       /\ ~IsFinite(Number(rec.Y)) => tile.y = Whole(1)

\* the integer nearest to t tenths, the larger one of two equally near
Nearest(t) == CHOOSE n \in -10..10 : 10 * n - 5 <= t /\ t < 10 * n + 5

\* round(v) + 1 for a cell that parses to a finite number, 1 for one that
\* does not parse
Expected(cell) ==
  CASE IsFinite(Number(cell)) -> Whole(Nearest(Number(cell).v) + 1)
    [] Number(cell) = NaN -> Whole(1)
    [] OTHER -> Number(cell)

\* C6: for a record whose X and Y parse to finite numbers, the tile has
\* x = round(X) + 1 and y = round(Y) + 1, round being the nearest integer and
\* the larger of the two at a halfway value; a non-numeric X or Y gives 1.
C6_RoundPlusOne ==
  Mapped =>
    LET rec == lastBatch.recs[1]
        tile == items[1]
    IN /\ Number(rec.X).k \in {"fin", "nan"} => tile.x = Expected(rec.X)
       /\ Number(rec.Y).k \in {"fin", "nan"} => tile.y = Expected(rec.Y)

C6_Witness ==
  /\ Mapped
  /\ lastBatch.recs[1].X = NumV(Fin(36)) /\ items[1].x = Whole(5)
  /\ lastBatch.recs[1].Y = NumV(Fin(-25)) /\ items[1].y = Whole(-1)

----------------------------------------------------------------------------
(* Element dispatch: properties, checked under SpecClick *)

Dispatched == lastBatch.delivered /\ variant = V23 /\ Len(items) = 1

\* C9 (as stated): a tile gets the menu sub-renderer exactly when Type is
\* "Menu" and Pages is a two-element structure whose second element, the
\* sub-record list, has more than one entry.
C9_MenuIffSeveralPages ==
  Dispatched =>
    LET rec == lastBatch.recs[1] IN
    ElementKind(items[1]) = "menu"
      <=> /\ rec.Type = "Menu"
          /\ rec.Pages.isArray /\ rec.Pages.len = 2
          /\ rec.Pages.second.isArray /\ Len(rec.Pages.second.entries) > 1

\* C9 (amended): a tile gets the menu sub-renderer exactly when Type is "Menu"
\* and Pages is an array of more than one element, whatever its second
\* element holds (no, one or several sub-records, or no list at all).
C9_MenuIffPagesHasSecond ==
  Dispatched =>
    LET rec == lastBatch.recs[1] IN
    ElementKind(items[1]) = "menu"
      <=> (rec.Type = "Menu" /\ rec.Pages.isArray /\ rec.Pages.len >= 2)

C9_Witness ==
  /\ Dispatched /\ ElementKind(items[1]) = "menu"
  /\ lastBatch.recs[1].Pages = PagesArray(2, Second(TRUE, <<MyPage>>))
  /\ nav.called /\ nav.target = LinkHash("p=My%20Page")

----------------------------------------------------------------------------
(* Host Binding and Crash Boundary: properties, checked under Spec *)

\* the tile list the records callback derives from batch b
TilesOf(b) == IF IsEmptyBatch(b) THEN <<>> ELSE MapBatch(variant, b.recs)

ShowsLastBatch ==
  /\ IsEmptyBatch(lastBatch) =>
       /\ Rendered = [view |-> "status", text |-> EmptyStatus(variant)]
       /\ items = <<>>
  /\ ~IsEmptyBatch(lastBatch) =>
       /\ status = Null
       /\ Rendered.view = "tiles"
  /\ EmptyStatus(variant) # UnavailableStatus(variant)

C8_CrashIsFinal ==
  /\ [](hasError => (error # Null /\ Rendered = [view |-> "crash", text |-> error]))
  /\ [][(mounted /\ mounted' /\ status' = Null) =>
          RenderError(variant, status', items') = Null]_vars
  /\ [][(mounted /\ ~mounted') =>
          (hasError' /\ error' # Null)]_vars
  /\ [][hasError => (hasError' /\ error' = error)]_vars

C8_Witness ==
  /\ hasError /\ variant = V23
  /\ error = "TypeError: pageRecords.map is not a function"
  /\ IsEmptyBatch(lastBatch) /\ lastBatch.delivered
  /\ Rendered.view = "crash"

HoldsLastBatch ==
  /\ items = TilesOf(lastBatch)
  /\ Len(items) = Len(lastBatch.recs)
  /\ \A i \in 1..Len(items) : items[i].id = lastBatch.recs[i].id

====
